---- MODULE Spec2Model ----
(***************************************************************************)
(* A model of src/src/load_monthly_fg.py: load_monthly_fg, the loader of   *)
(* the monthly batting exports.  The directory is the environment's state, *)
(* built by CreateFile / CreateUnparsable / WriteRow before the load       *)
(* starts; the load is then a deterministic pipeline over it.              *)
(*                                                                         *)
(* Representation.                                                         *)
(*  - A file name is a sequence of one-character strings.                  *)
(*  - A cell is a record [k, n, d]:                                        *)
(*      k = "num"  the number n/d (d > 0, lowest terms);                   *)
(*      k = "nan"  pandas' missing value (NaN / NA);                       *)
(*      k = "txt"  a text cell that does not parse as a number;            *)
(*      k = "str"  a string of an identity column, n its index in a fixed  *)
(*                 list (player names, or month labels);                   *)
(*      k = "z"    the float 0.320 + 0.045 * z with z # 0, where n/d is    *)
(*                 sign(z) * z^2.  z = (raw - mean) / std is the quotient  *)
(*                 of a rational by the square root of a rational, so      *)
(*                 sign(z) * z^2 is rational and determines z exactly,     *)
(*                 and z |-> sign(z) * z^2 is strictly increasing.         *)
(*  - Floating point arithmetic is modelled as exact arithmetic.           *)
(*  - A table is [cols, rows]; a row is [src, c]: c maps each column to a  *)
(*    cell, src = <<file id, row number>> records where the row was read.  *)
(***************************************************************************)
EXTENDS Integers, Sequences, FiniteSets, TLC

VARIABLES fam, dir, pc, files, idx, dfs, concat_df, all_df, err, readLog, skipLog, result

vars == <<fam, dir, pc, files, idx, dfs, concat_df, all_df, err, readLog, skipLog, result>>

-----------------------------------------------------------------------------
(* Numbers                                                                 *)

Abs(x) == IF x < 0 THEN -x ELSE x

RECURSIVE GCD(_, _)
GCD(a, b) == IF b = 0 THEN a ELSE GCD(b, a % b)

Norm(n, d) ==
  LET g == GCD(Abs(n), d)
  IN  [k |-> "num", n |-> n \div g, d |-> d \div g]

Num(i) == [k |-> "num", n |-> i, d |-> 1]
NaN == [k |-> "nan", n |-> 0, d |-> 1]
Txt == [k |-> "txt", n |-> 0, d |-> 1]
Str(i) == [k |-> "str", n |-> i, d |-> 1]

IsNum(a) == a.k = "num"
IsNaN(a) == a.k = "nan"

\* a + b, a - b, a * b, a / b on cells; a NaN operand gives NaN
QAdd(a, b) ==
  IF ~(IsNum(a) /\ IsNum(b)) THEN NaN
  ELSE LET g == GCD(a.d, b.d)
       IN  Norm(a.n * (b.d \div g) + b.n * (a.d \div g), (a.d \div g) * b.d)

QNeg(a) == IF IsNum(a) THEN [a EXCEPT !.n = -a.n] ELSE NaN

QSub(a, b) == QAdd(a, QNeg(b))

QMul(a, b) ==
  IF ~(IsNum(a) /\ IsNum(b)) THEN NaN
  ELSE LET g1 == GCD(Abs(a.n), b.d)
           g2 == GCD(Abs(b.n), a.d)
       IN  Norm((a.n \div g1) * (b.n \div g2), (a.d \div g2) * (b.d \div g1))

\* used only where the divisor is a nonzero number
QDiv(a, b) ==
  IF ~(IsNum(a) /\ IsNum(b)) \/ b.n = 0 THEN NaN
  ELSE QMul(a, [k |-> "num", n |-> (IF b.n < 0 THEN -b.d ELSE b.d), d |-> Abs(b.n)])

\* comparisons: any comparison with NaN is false
QGt(a, b) == IsNum(a) /\ IsNum(b) /\ a.n * b.d > b.n * a.d
QGe(a, b) == IsNum(a) /\ IsNum(b) /\ a.n * b.d >= b.n * a.d

Zero == Num(0)

-----------------------------------------------------------------------------
(* File names                                                              *)

\* the characters of the modelled names, in code point order
Alphabet == <<".", "0", "1", "2", "3", "4", "5", "6", "7", "8", "9", "_", "c", "s", "t", "v", "x">>

CharRank(ch) == CHOOSE i \in 1..Len(Alphabet) : Alphabet[i] = ch

Digits == <<"0", "1", "2", "3", "4", "5", "6", "7", "8", "9">>

IsDigit(ch) == \E i \in 1..Len(Digits) : Digits[i] = ch

DigitVal(ch) == (CHOOSE i \in 1..Len(Digits) : Digits[i] = ch) - 1

\* int("...") of a sequence of digits
RECURSIVE ToInt(_)
ToInt(s) == IF s = <<>> THEN 0 ELSE 10 * ToInt(SubSeq(s, 1, Len(s) - 1)) + DigitVal(s[Len(s)])

FileNames == <<
  <<"0","4","_","2","0","2","1",".","c","s","v">>,
  <<"0","5","_","2","0","2","2",".","c","s","v">>,
  <<"0","4","_","2","0","2","0",".","c","s","v">>,
  <<"1","3","_","2","0","2","1",".","c","s","v">>,
  <<"0","5","_","2","0","2","1",".","c","s","v">>,
  <<"0","4","_","2","1",".","c","s","v">>,
  <<"4","_","2","0","2","1",".","c","s","v">>,
  <<"0","4","_","2","0","2","1",".","c","s","v",".","c","s","v">>,
  <<"0","4","_","2","0","2","1",".","t","x","t">>
>>

FileIds == 1..Len(FileNames)

\* FILENAME_RE: "d" stands for the class \d, any other token for itself
FILENAME_RE == <<"d", "d", "_", "d", "d", "d", "d", ".", "c", "s", "v">>

TokMatch(tok, ch) == IF tok = "d" THEN IsDigit(ch) ELSE tok = ch

\* FILENAME_RE.fullmatch(name): the whole name is consumed by the pattern
fullmatch(name) ==
  /\ Len(name) = Len(FILENAME_RE)
  /\ \A i \in 1..Len(FILENAME_RE) : TokMatch(FILENAME_RE[i], name[i])

month_of(name) == ToInt(SubSeq(name, 1, 2))
year_of(name) == ToInt(SubSeq(name, 4, 7))

\* data_dir.glob("*.csv")
GlobCsv(name) ==
  /\ Len(name) >= 4
  /\ SubSeq(name, Len(name) - 3, Len(name)) = <<".", "c", "s", "v">>

\* name a < name b in the order sorted() gives paths
RECURSIVE NameLess(_, _)
NameLess(a, b) ==
  IF b = <<>> THEN FALSE
  ELSE IF a = <<>> THEN TRUE
  ELSE IF a[1] # b[1] THEN CharRank(a[1]) < CharRank(b[1])
  ELSE NameLess(Tail(a), Tail(b))

\* sorted(ids): the ids of S as a sequence ascending by name
RECURSIVE SortedIds(_)
SortedIds(S) ==
  IF S = {} THEN <<>>
  ELSE LET m == CHOOSE x \in S : \A y \in S \ {x} : NameLess(FileNames[x], FileNames[y])
       IN  <<m>> \o SortedIds(S \ {m})

-----------------------------------------------------------------------------
(* Tables                                                                  *)

PlayerNames == <<"ann", "bob">>

month_names == [m \in 4..9 |-> m - 3]

MonthLabels == <<"Apr", "May", "Jun", "Jul", "Aug", "Sep">>

Ext(f, col, v) == [x \in (DOMAIN f) \cup {col} |-> IF x = col THEN v ELSE f[x]]

\* t[col] = F(row) for every row
SetCol(t, col, F(_)) ==
  [cols |-> t.cols \cup {col},
   rows |-> [i \in DOMAIN t.rows |-> [t.rows[i] EXCEPT !.c = Ext(@, col, F(t.rows[i]))]]]

SelectRows(t, P(_)) == [t EXCEPT !.rows = SelectSeq(t.rows, P)]

EmptyTable == [cols |-> {}, rows |-> <<>>]

\* pd.to_numeric(errors="coerce") on one cell
to_numeric(a) == IF IsNum(a) THEN a ELSE NaN

fillna0(a) == IF IsNaN(a) THEN Zero ELSE a

\* _to_num
to_num(a) == fillna0(to_numeric(a))


\* StampFile as df.setdefault would do it: an in-file Season or Month column wins
StampFileKeepsExisting(id, content) ==
  LET name == FileNames[id]
      df == [cols |-> content.cols,
             rows |-> [j \in DOMAIN content.rows |-> [src |-> <<id, j>>, c |-> content.rows[j]]]]
      s1 == IF "Season" \in df.cols THEN df ELSE SetCol(df, "Season", LAMBDA r : Num(year_of(name)))
  IN  IF "Month" \in s1.cols THEN s1 ELSE SetCol(s1, "Month", LAMBDA r : Num(month_of(name)))

\* pd.read_csv(path) followed by df["Season"] = year; df["Month"] = month
StampFile(id, content) ==
  LET name == FileNames[id]
      df == [cols |-> content.cols,
             rows |-> [j \in DOMAIN content.rows |-> [src |-> <<id, j>>, c |-> content.rows[j]]]]
      s1 == SetCol(df, "Season", LAMBDA r : Num(year_of(name)))
  IN  SetCol(s1, "Month", LAMBDA r : Num(month_of(name)))

\* pd.concat(dfs, ignore_index=True): union of the columns, NaN where absent
RECURSIVE ConcatCols(_)
ConcatCols(ds) == IF ds = <<>> THEN {} ELSE Head(ds).cols \cup ConcatCols(Tail(ds))

RECURSIVE ConcatRows(_)
ConcatRows(ds) == IF ds = <<>> THEN <<>> ELSE Head(ds).rows \o ConcatRows(Tail(ds))

Concat(ds) ==
  LET cs == ConcatCols(ds)
      rs == ConcatRows(ds)
  IN  [cols |-> cs,
       rows |-> [i \in DOMAIN rs |->
                   [rs[i] EXCEPT !.c = [x \in cs |-> IF x \in DOMAIN @ THEN @[x] ELSE NaN]]]]

\* rename(columns={"Tm": "Team", "SO": "K"}).  Renaming onto a label the
\* table already has leaves two columns with one label: the renamed one is
\* kept here under the model name "<label>#2".
RenameTo(t, old, new) ==
  IF old \notin t.cols THEN t
  ELSE LET tgt == IF new \notin t.cols THEN new ELSE IF new = "K" THEN "K#2" ELSE "Team#2"
           cs == (t.cols \ {old}) \cup {tgt}
       IN  [cols |-> cs,
            rows |-> [i \in DOMAIN t.rows |->
                        [t.rows[i] EXCEPT !.c = [x \in cs |-> IF x = tgt THEN @[old] ELSE @[x]]]]]

RenameCols(t) == RenameTo(RenameTo(t, "Tm", "Team"), "SO", "K")

\* all_df[col] is a DataFrame, not a Series, when the label col is held by
\* two columns; pd.to_numeric then raises TypeError.  Name and Team are
\* never passed to it.
DuplicateNumericLabel(t) == "K#2" \in t.cols

KeepAsString == {"Name", "Team", "Team#2"}

\* the loop of lines 79-82
CoerceAll(t) ==
  [t EXCEPT !.rows = [i \in DOMAIN t.rows |->
     [t.rows[i] EXCEPT !.c = [x \in t.cols |->
        IF x \in KeepAsString THEN @[x] ELSE fillna0(to_numeric(@[x]))]]]]

MinSeason == 2021

\* all_df[all_df["Season"] >= 2021]
KeepSeason(r) == QGe(to_numeric(r.c["Season"]), Num(MinSeason))


\* SeasonFilter without line 87
SeasonFilterOff(t) ==
  LET s == SetCol(t, "Season", LAMBDA r : to_numeric(r.c["Season"]))
  IN  SetCol(s, "Month", LAMBDA r : to_numeric(r.c["Month"]))

SeasonFilter(t) ==
  LET s == SetCol(t, "Season", LAMBDA r : to_numeric(r.c["Season"]))
      m == SetCol(s, "Month", LAMBDA r : to_numeric(r.c["Month"]))
  IN  SelectRows(m, KeepSeason)

\* all_df["Month"].map(month_names)
MonthLabelOf(r) ==
  LET m == r.c["Month"]
  IN  IF IsNum(m) /\ m.d = 1 /\ m.n \in DOMAIN month_names THEN Str(month_names[m.n]) ELSE NaN

AddMonthLabel(t) == SetCol(t, "MonthLabel", MonthLabelOf)

needed == <<"PA", "AB", "H", "1B", "2B", "3B", "HR", "BB", "IBB", "HBP", "SF", "R", "RBI", "SB", "K">>

\* lines 101-106: create the absent needed columns as 0, then _to_num each
RECURSIVE EnsureFrom(_, _)
EnsureFrom(t, i) ==
  IF i > Len(needed) THEN t
  ELSE LET c == needed[i]
           t1 == IF c \notin t.cols THEN SetCol(t, c, LAMBDA r : Zero) ELSE t
       IN  EnsureFrom(SetCol(t1, c, LAMBDA r : to_num(r.c[c])), i + 1)

EnsureNeeded(t) == EnsureFrom(t, 1)

\* lines 74-106
Normalize(t) == EnsureNeeded(AddMonthLabel(SeasonFilter(CoerceAll(RenameCols(t)))))

-----------------------------------------------------------------------------
(* Derived metrics                                                         *)

C(r, col) == r.c[col]

\* np.where(cond, value, np.nan)
Where(cond, value) == IF cond THEN value ELSE NaN

tb(r) == QAdd(QAdd(C(r, "1B"), QMul(Num(2), C(r, "2B"))),
              QAdd(QMul(Num(3), C(r, "3B")), QMul(Num(4), C(r, "HR"))))


\* slg with 0 in place of np.nan
slg_zero(r) == IF QGt(C(r, "AB"), Zero) THEN QDiv(tb(r), C(r, "AB")) ELSE Zero

slg(r) == Where(QGt(C(r, "AB"), Zero), QDiv(tb(r), C(r, "AB")))

obp_denom(r) == QAdd(QAdd(C(r, "AB"), C(r, "BB")), QAdd(C(r, "HBP"), C(r, "SF")))

obp(r) == Where(QGt(obp_denom(r), Zero),
                QDiv(QAdd(QAdd(C(r, "H"), C(r, "BB")), C(r, "HBP")), obp_denom(r)))

\* obp + slg: a NaN operand gives NaN
OPSOf(r) == QAdd(obp(r), slg(r))


\* ComputeOPS without the test of line 111
ComputeOPSAlways(t) == SetCol(t, "OPS", OPSOf)

\* lines 111-123
ComputeOPS(t) == IF "OPS" \notin t.cols THEN SetCol(t, "OPS", OPSOf) ELSE t

\* the weights of lines 132-139, in hundredths
w == [BB |-> 69, HBP |-> 72, B1 |-> 88, B2 |-> 125, B3 |-> 158, HR |-> 201]

Hundredths(i) == Norm(i, 100)

\* (BB - IBB).clip(lower=0)
ubb(r) ==
  LET x == QSub(C(r, "BB"), C(r, "IBB"))
  IN  IF QGt(Zero, x) THEN Zero ELSE x

woba_denom(r) == QAdd(QAdd(C(r, "AB"), ubb(r)), QAdd(C(r, "SF"), C(r, "HBP")))

woba_num(r) ==
  QAdd(QAdd(QAdd(QMul(Hundredths(w.BB), ubb(r)), QMul(Hundredths(w.HBP), C(r, "HBP"))),
            QAdd(QMul(Hundredths(w.B1), C(r, "1B")), QMul(Hundredths(w.B2), C(r, "2B")))),
       QAdd(QMul(Hundredths(w.B3), C(r, "3B")), QMul(Hundredths(w.HR), C(r, "HR"))))

wOBAOf(r) == Where(QGt(woba_denom(r), Zero), QDiv(woba_num(r), woba_denom(r)))

\* lines 130-151
ComputeWOBA(t) == IF "wOBA" \notin t.cols THEN SetCol(t, "wOBA", wOBAOf) ELSE t

\* lines 156-157
ComputeFWAR(t) ==
  IF "WAR" \in t.cols /\ "fWAR" \notin t.cols
  THEN SetCol(t, "fWAR", LAMBDA r : to_numeric(C(r, "WAR")))
  ELSE t

\* fw_weights, in hundredths, in the order of the dict
fw_stats == <<"H", "R", "2B", "HR", "SB", "BB", "RBI", "K">>
fw_weights == <<55, 55, 25, 110, 35, 45, 55, -35>>

RECURSIVE fw_sum(_, _)
fw_sum(r, i) ==
  IF i = 0 THEN Zero
  ELSE QAdd(fw_sum(r, i - 1), QMul(Hundredths(fw_weights[i]), C(r, fw_stats[i])))

\* all_df["PA"].where(all_df["PA"] > 0, np.nan)
pa(r) == Where(QGt(C(r, "PA"), Zero), C(r, "PA"))


\* FWRawOf with a trailing fillna(0)
FWRawOfFilled(r) == fillna0(Where(~IsNaN(pa(r)), QDiv(fw_sum(r, Len(fw_stats)), pa(r))))

FWRawOf(r) == Where(~IsNaN(pa(r)), QDiv(fw_sum(r, Len(fw_stats)), pa(r)))

\* lines 166-182
ComputeFWRaw(t) == SetCol(t, "FWOBA_raw", FWRawOf)

\* lines 111-182
Metrics(t) == ComputeFWRaw(ComputeFWAR(ComputeWOBA(ComputeOPS(t))))

-----------------------------------------------------------------------------
(* Rescaling                                                               *)

QualifyPA == 20

\* (all_df["PA"] >= 20) & all_df["FWOBA_raw"].notna()
dist_mask(r) == QGe(C(r, "PA"), Num(QualifyPA)) /\ ~IsNaN(C(r, "FWOBA_raw"))

RECURSIVE SumRaw(_)
SumRaw(rs) == IF rs = <<>> THEN Zero ELSE QAdd(C(Head(rs), "FWOBA_raw"), SumRaw(Tail(rs)))

\* Series.mean(): NaN over no value
MeanRaw(rs) == IF Len(rs) = 0 THEN NaN ELSE QDiv(SumRaw(rs), Num(Len(rs)))

RECURSIVE SumSq(_, _)
SumSq(rs, m) ==
  IF rs = <<>> THEN Zero
  ELSE LET dv == QSub(C(Head(rs), "FWOBA_raw"), m)
       IN  QAdd(QMul(dv, dv), SumSq(Tail(rs), m))

\* the square of Series.std() (ddof = 1): NaN over fewer than two values
VarRaw(rs) ==
  IF Len(rs) < 2 THEN NaN ELSE QDiv(SumSq(rs, MeanRaw(rs)), Num(Len(rs) - 1))

\* bool(raw_std): a float is false only when it is 0.0 (NaN is true)
Truthy(v) == ~(IsNum(v) /\ v.n = 0)


\* the test of line 193 written raw_std != 0
StdNonZero(v) == ~(IsNum(v) /\ v.n = 0)

\* raw_std and raw_std > 0, on the variance: std > 0 iff std^2 > 0
StdPositive(v) == Truthy(v) /\ QGt(v, Zero)

TargetMean == Norm(320, 1000)

\* 0.320 + ((raw - mean) / std) * 0.045
ZScoreCell(raw, m, v) ==
  LET dv == QSub(raw, m)
      q == QDiv(QMul(dv, dv), v)
  IN  IF IsNaN(dv) \/ ~IsNum(v) \/ v.n = 0 THEN NaN
      ELSE IF dv.n = 0 THEN TargetMean
      ELSE [k |-> "z", n |-> (IF dv.n < 0 THEN -q.n ELSE q.n), d |-> q.d]


\* StatRows taken per season, as a groupby("Season") would
StatRowsPerSeason(t, r) ==
  SelectSeq(t.rows, LAMBDA x : dist_mask(x) /\ C(x, "Season") = C(r, "Season"))

\* the rows the mean and the standard deviation are taken over
StatRows(t, r) == SelectSeq(t.rows, dist_mask)

\* lines 188-197
Rescale(t) ==
  SetCol(t, "FWOBA",
         LAMBDA r : LET q == StatRows(t, r)
                        raw_mean == MeanRaw(q)
                        raw_var == VarRaw(q)
                    IN  IF StdPositive(raw_var)
                        THEN ZScoreCell(C(r, "FWOBA_raw"), raw_mean, raw_var)
                        ELSE TargetMean)

-----------------------------------------------------------------------------
(* Sorting                                                                 *)

\* the key order of sort_values: numbers ascending, NaN last
CellLess(a, b) ==
  IF IsNaN(a) THEN FALSE
  ELSE IF IsNaN(b) THEN TRUE
  ELSE IF a.k = "str" THEN a.n < b.n
  ELSE a.n * b.d < b.n * a.d

RECURSIVE KeyLess(_, _, _)
KeyLess(r1, r2, ks) ==
  IF ks = <<>> THEN FALSE
  ELSE IF CellLess(C(r1, Head(ks)), C(r2, Head(ks))) THEN TRUE
  ELSE IF CellLess(C(r2, Head(ks)), C(r1, Head(ks))) THEN FALSE
  ELSE KeyLess(r1, r2, Tail(ks))

\* insert r after the rows that are not greater: the sort is stable
RECURSIVE InsertRow(_, _, _)
InsertRow(rs, r, ks) ==
  IF rs = <<>> THEN <<r>>
  ELSE IF KeyLess(r, Head(rs), ks) THEN <<r>> \o rs
  ELSE <<Head(rs)>> \o InsertRow(Tail(rs), r, ks)

RECURSIVE SortStable(_, _)
SortStable(rs, ks) ==
  IF rs = <<>> THEN <<>>
  ELSE InsertRow(SortStable(SubSeq(rs, 1, Len(rs) - 1), ks), rs[Len(rs)], ks)

\* lines 202-203
SortRows(t) ==
  LET sort_cols == SelectSeq(<<"Season", "Month", "Name">>, LAMBDA c : c \in t.cols)
  IN  [t EXCEPT !.rows = SortStable(t.rows, sort_cols)]

-----------------------------------------------------------------------------
(* The directory: what the environment may put there                       *)

\* bounds of the three input families
MaxFiles == 2
MaxRows == 2
MaxRateFiles == 2
MaxRateRows == 2
MaxFwFiles == 2
MaxFwRows == 3

Families == {"dir", "rates", "fw"}

FamIds(f) ==
  CASE f = "dir" -> FileIds \ {2, 5}
    [] f = "rates" -> {1, 2, 6}
    [] f = "fw" -> {1, 2, 3, 5, 6}

FamHeaders(f) ==
  CASE f = "dir" -> {{"Name", "K"}, {"Name", "SO"}, {"Name", "Season", "Month"}}
    [] f = "rates" -> {{"AB", "BB"}, {"AB", "OPS"}, {"AB", "wOBA"}}
    [] f = "fw" -> {{"Name", "PA", "H"}}

\* the cells a file of the "dir" or "rates" family may hold in a column
FamVals(f, col) ==
  CASE col = "Name" -> {Str(1)}
    [] col \in {"K", "SO"} -> {Num(1)}
    [] col = "AB" -> {Num(0), Num(2)}
    [] col = "BB" -> {Num(-2), Num(1), Txt}
    [] col = "OPS" -> {Norm(3, 4), Txt}
    [] col = "wOBA" -> {Norm(1, 2), NaN}

FamMaxFiles(f) ==
  CASE f = "dir" -> MaxFiles [] f = "rates" -> MaxRateFiles [] f = "fw" -> MaxFwFiles

FamMaxRows(f) ==
  CASE f = "dir" -> MaxRows [] f = "rates" -> MaxRateRows [] f = "fw" -> MaxFwRows

FwRow(p, h) == [x \in {"Name", "PA", "H"} |->
                 IF x = "Name" THEN Str(1) ELSE IF x = "PA" THEN Num(p) ELSE Num(h)]

\* FWOBA_raw undefined, 0.165 and 0.11
FwRows == {FwRow(0, 0), FwRow(20, 6), FwRow(30, 6)}

StampRow(s, m) == [x \in {"Name", "Season", "Month"} |->
                    IF x = "Name" THEN Str(2) ELSE IF x = "Season" THEN s ELSE m]

\* rows of a file that has columns named Season and Month of its own
StampRows == {StampRow(Num(1999), Num(7)), StampRow(Num(2030), Txt), StampRow(Txt, NaN)}

FamRows(f, cols) ==
  IF f = "fw" THEN FwRows
  ELSE IF "Season" \in cols THEN StampRows
  ELSE {r \in [cols -> UNION {FamVals(f, c) : c \in cols}] :
          \A c \in cols : r[c] \in FamVals(f, c)}

RECURSIVE TotalRows(_, _)
TotalRows(d, S) ==
  IF S = {} THEN 0
  ELSE LET x == CHOOSE y \in S : TRUE
       IN  Len(d[x].rows) + TotalRows(d, S \ {x})

Unparsable == [ok |-> FALSE, cols |-> {}, rows |-> <<>>]

NoTable == <<>>

-----------------------------------------------------------------------------
(* The state machine                                                       *)

InitFam(f) ==
  /\ fam = f
  /\ dir = <<>>
  /\ pc = "idle"
  /\ files = <<>>
  /\ idx = 1
  /\ dfs = <<>>
  /\ concat_df = EmptyTable
  /\ all_df = EmptyTable
  /\ err = "none"
  /\ readLog = {}
  /\ skipLog = {}
  /\ result = NoTable

Init == InitFam("dir")
InitRates == InitFam("rates")
InitFw == InitFam("fw")

loadVars == <<pc, files, idx, dfs, concat_df, all_df, err, readLog, skipLog, result>>

\* the environment writes a CSV file holding a header line
CreateFile ==
  /\ pc = "idle"
  /\ Cardinality(DOMAIN dir) < FamMaxFiles(fam)
  /\ \E id \in FamIds(fam) \ DOMAIN dir, h \in FamHeaders(fam) :
       dir' = Ext(dir, id, [ok |-> TRUE, cols |-> h, rows |-> <<>>])
  /\ UNCHANGED <<fam, loadVars>>

\* the environment writes a file that does not parse as CSV
CreateUnparsable ==
  /\ pc = "idle"
  /\ Cardinality(DOMAIN dir) < FamMaxFiles(fam)
  /\ \E id \in FamIds(fam) \ DOMAIN dir : dir' = Ext(dir, id, Unparsable)
  /\ UNCHANGED <<fam, loadVars>>

\* the environment appends a data line to a CSV file
WriteRow ==
  /\ pc = "idle"
  /\ TotalRows(dir, DOMAIN dir) < FamMaxRows(fam)
  /\ \E id \in DOMAIN dir :
       /\ dir[id].ok
       /\ \E r \in FamRows(fam, dir[id].cols) :
            dir' = [dir EXCEPT ![id].rows = Append(@, r)]
  /\ UNCHANGED <<fam, loadVars>>

Globbed == SortedIds({id \in DOMAIN dir : GlobCsv(FileNames[id])})

Raise(e) ==
  /\ pc' = "error"
  /\ err' = e
  /\ result' = NoTable

\* lines 41-43: no *.csv file
NoCsvFiles ==
  /\ pc = "idle"
  /\ Globbed = <<>>
  /\ Raise("NoCsv")
  /\ UNCHANGED <<fam, dir, files, idx, dfs, concat_df, all_df, readLog, skipLog>>

\* lines 41-45
Glob ==
  /\ pc = "idle"
  /\ Globbed # <<>>
  /\ files' = Globbed
  /\ idx' = 1
  /\ dfs' = <<>>
  /\ pc' = "loop"
  /\ UNCHANGED <<fam, dir, concat_df, all_df, err, readLog, skipLog, result>>

InLoop == pc = "loop" /\ idx <= Len(files)


\* SkipFile with break in place of continue
SkipFileBreaks ==
  /\ InLoop
  /\ ~fullmatch(FileNames[files[idx]])
  /\ skipLog' = skipLog \cup {files[idx]}
  /\ idx' = Len(files) + 1
  /\ UNCHANGED <<fam, dir, pc, files, dfs, concat_df, all_df, err, readLog, result>>

\* lines 48-51
SkipFile ==
  /\ InLoop
  /\ ~fullmatch(FileNames[files[idx]])
  /\ skipLog' = skipLog \cup {files[idx]}
  /\ idx' = idx + 1
  /\ UNCHANGED <<fam, dir, pc, files, dfs, concat_df, all_df, err, readLog, result>>

\* lines 53-61
ReadFile ==
  /\ InLoop
  /\ fullmatch(FileNames[files[idx]])
  /\ dir[files[idx]].ok
  /\ readLog' = readLog \cup {files[idx]}
  /\ dfs' = Append(dfs, StampFile(files[idx], dir[files[idx]]))
  /\ idx' = idx + 1
  /\ UNCHANGED <<fam, dir, pc, files, concat_df, all_df, err, skipLog, result>>


\* ReadFails with the error swallowed and the file passed over
ReadFailsSkipped ==
  /\ InLoop
  /\ fullmatch(FileNames[files[idx]])
  /\ ~dir[files[idx]].ok
  /\ readLog' = readLog \cup {files[idx]}
  /\ idx' = idx + 1
  /\ UNCHANGED <<fam, dir, pc, files, dfs, concat_df, all_df, err, skipLog, result>>

\* line 56: pd.read_csv raises
ReadFails ==
  /\ InLoop
  /\ fullmatch(FileNames[files[idx]])
  /\ ~dir[files[idx]].ok
  /\ readLog' = readLog \cup {files[idx]}
  /\ Raise("ParseError")
  /\ UNCHANGED <<fam, dir, files, idx, dfs, concat_df, all_df, skipLog>>

LoopDone == pc = "loop" /\ idx > Len(files)

\* lines 63-67
NoUsable ==
  /\ LoopDone
  /\ dfs = <<>>
  /\ Raise("NoUsable")
  /\ UNCHANGED <<fam, dir, files, idx, dfs, concat_df, all_df, readLog, skipLog>>

\* line 69
ConcatAll ==
  /\ LoopDone
  /\ dfs # <<>>
  /\ concat_df' = Concat(dfs)
  /\ all_df' = Concat(dfs)
  /\ pc' = "normalize"
  /\ UNCHANGED <<fam, dir, files, idx, dfs, err, readLog, skipLog, result>>

\* lines 74-106; line 82 raises on a label held by two columns
NormalizeStep ==
  /\ pc = "normalize"
  /\ IF DuplicateNumericLabel(RenameCols(all_df))
     THEN Raise("TypeError") /\ UNCHANGED all_df
     ELSE all_df' = Normalize(all_df) /\ pc' = "metrics" /\ UNCHANGED <<err, result>>
  /\ UNCHANGED <<fam, dir, files, idx, dfs, concat_df, readLog, skipLog>>

\* lines 111-182
MetricsStep ==
  /\ pc = "metrics"
  /\ all_df' = Metrics(all_df)
  /\ pc' = "rescale"
  /\ UNCHANGED <<fam, dir, files, idx, dfs, concat_df, err, readLog, skipLog, result>>

\* lines 188-197
RescaleStep ==
  /\ pc = "rescale"
  /\ all_df' = Rescale(all_df)
  /\ pc' = "sort"
  /\ UNCHANGED <<fam, dir, files, idx, dfs, concat_df, err, readLog, skipLog, result>>

\* lines 202-205
SortAndReturn ==
  /\ pc = "sort"
  /\ all_df' = SortRows(all_df)
  /\ result' = <<SortRows(all_df)>>
  /\ pc' = "done"
  /\ UNCHANGED <<fam, dir, files, idx, dfs, concat_df, err, readLog, skipLog>>

Next ==
  \/ CreateFile
  \/ CreateUnparsable
  \/ WriteRow
  \/ NoCsvFiles
  \/ Glob
  \/ SkipFile
  \/ ReadFile
  \/ ReadFails
  \/ NoUsable
  \/ ConcatAll
  \/ NormalizeStep
  \/ MetricsStep
  \/ RescaleStep
  \/ SortAndReturn

Spec == Init /\ [][Next]_vars
SpecRates == InitRates /\ [][Next]_vars
SpecFw == InitFw /\ [][Next]_vars

-----------------------------------------------------------------------------
(* Properties                                                              *)

Done == pc = "done"

\* the returned table (read only where Done)
Out == result[1]

OutRows == {Out.rows[i] : i \in DOMAIN Out.rows}

Conforming(id) == fullmatch(FileNames[id])

ConformingIn(d) == {id \in DOMAIN d : Conforming(id)}

\* the cell the file holds for a row, NaN where the file has no such column
FileCell(r, col) ==
  LET content == dir[r.src[1]]
  IN  IF col \in content.cols THEN content.rows[r.src[2]][col] ELSE NaN

IsZero(a) == IsNum(a) /\ a.n = 0

\* C1: after the load every counting column of every output row is >= 0,
\* whatever the source cell held (a number of any sign, text, nothing, or no
\* such column).  The code keeps a negative number as it is.
C1_CountsNonNegative ==
  Done => \A r \in OutRows : \A i \in DOMAIN needed : QGe(C(r, needed[i]), Zero)

\* C2: a table is returned only if some file has a conforming name and every
\* conforming file parses; otherwise the load ends in an error and returns
\* no table, not even one built from the files read before the failure.
C2_TableOnlyIfUsable ==
  /\ result # NoTable => Done
  /\ Done => /\ result # NoTable
             /\ ConformingIn(dir) # {}
             /\ \A id \in ConformingIn(dir) : dir[id].ok
  /\ pc = "error" => result = NoTable
  /\ pc \in {"normalize", "metrics", "rescale", "sort"} =>
       /\ ConformingIn(dir) # {}
       /\ \A id \in ConformingIn(dir) : dir[id].ok

\* a conforming file was read, a later one failed to parse, no table came back
C2_Witness ==
  /\ pc = "error"
  /\ err = "ParseError"
  /\ Len(dfs) >= 1
  /\ \E i \in DOMAIN dfs : Len(dfs[i].rows) >= 1
  /\ result = NoTable

\* C3: a file whose name does not fully match is skipped: never read, no row
\* of the output comes from it, and it does not abort the run or stop the
\* conforming files around it from being read, wherever it sorts.
C3_NonConformingSkipped ==
  /\ \A id \in readLog : Conforming(id)
  /\ \A id \in skipLog : ~Conforming(id)
  /\ \A i \in DOMAIN all_df.rows : Conforming(all_df.rows[i].src[1])
  /\ (pc = "error" /\ err \in {"NoCsv", "NoUsable"}) => ConformingIn(dir) = {}
  /\ (pc = "error" /\ err = "ParseError") => \E id \in ConformingIn(dir) : ~dir[id].ok
  /\ pc \in {"normalize", "metrics", "rescale", "sort", "done"} =>
       /\ readLog = ConformingIn(dir)
       /\ skipLog = {id \in DOMAIN dir : GlobCsv(FileNames[id]) /\ ~Conforming(id)}
       /\ Len(concat_df.rows) = TotalRows(dir, ConformingIn(dir))

\* an unparsable file with a non-conforming name sorts before a conforming
\* file; the load still returns that file's rows
C3_Witness ==
  /\ Done
  /\ \E i, j \in DOMAIN files :
       /\ i < j
       /\ files[i] \in skipLog
       /\ ~dir[files[i]].ok
       /\ files[j] \in readLog
       /\ \E r \in OutRows : r.src[1] = files[j]

\* C4: every output row has a non-null Season >= 2021 and a non-null Month,
\* and Month is in 4..9 wherever MonthLabel is defined, also when the file
\* names carry years below 2021 or months outside 4..9.
C4_SeasonMonthRange ==
  Done => \A r \in OutRows :
            /\ IsNum(C(r, "Season")) /\ C(r, "Season").d = 1 /\ C(r, "Season").n >= 2021
            /\ IsNum(C(r, "Month")) /\ C(r, "Month").d = 1
            /\ (~IsNaN(C(r, "MonthLabel")) => C(r, "Month").n \in 4..9)

\* files of 2020 and of month 13 were read with rows in them; a row without
\* a month label is in the output
C4_Witness ==
  /\ Done
  /\ \E id \in readLog : year_of(FileNames[id]) < 2021 /\ Len(dir[id].rows) >= 1
  /\ \E r \in OutRows : IsNaN(C(r, "MonthLabel")) /\ C(r, "Month").n = 13

\* the source rows a load keeps: those of the conforming files of 2021 on
KeptSources ==
  UNION {{<<id, j>> : j \in DOMAIN dir[id].rows} :
           id \in {x \in ConformingIn(dir) : year_of(FileNames[x]) >= 2021}}

\* C9: Season and Month of every output row are the year and month of the
\* name of the file it was read from, whatever the file's own Season and
\* Month columns hold, and a row is kept exactly when the name's year is
\* >= 2021.
C9_StampFromFilename ==
  Done =>
    /\ \A r \in OutRows :
         /\ C(r, "Season") = Num(year_of(FileNames[r.src[1]]))
         /\ C(r, "Month") = Num(month_of(FileNames[r.src[1]]))
    /\ {r.src : r \in OutRows} = KeptSources
    /\ Len(Out.rows) = Cardinality(KeptSources)

\* a kept row whose file says Season 1999, and a dropped row whose file says 2030
C9_Witness ==
  /\ Done
  /\ \E r \in OutRows : FileCell(r, "Season") = Num(1999) /\ FileCell(r, "Month") = Num(7)
  /\ \E id \in readLog :
       /\ year_of(FileNames[id]) < 2021
       /\ "Season" \in dir[id].cols
       /\ \E j \in DOMAIN dir[id].rows : dir[id].rows[j]["Season"] = Num(2030)

\* the row of the ingested table (line 69) a later row stems from
Ingested(r) == CHOOSE x \in {concat_df.rows[i] : i \in DOMAIN concat_df.rows} : x.src = r.src

Supplied(col) == col \in concat_df.cols

\* C5 as claimed: OPS is undefined in every output row with AB = 0, and in
\* every row whose slugging or on-base rate is undefined.  An OPS column of
\* the input is kept, so this fails when a file supplies one.
C5_OPSUndefinedAtZeroAB ==
  Done => \A r \in OutRows :
            (IsZero(C(r, "AB")) \/ IsZero(obp_denom(r))) => IsNaN(C(r, "OPS"))

\* C5, amended: when no input file has an OPS column, OPS is undefined in
\* every output row with AB = 0 and in every row with AB+BB+HBP+SF = 0; an
\* undefined operand is never added as zero.
C5_ComputedOPSUndefined ==
  (Done /\ ~Supplied("OPS")) =>
    \A r \in OutRows :
      (IsZero(C(r, "AB")) \/ IsZero(obp_denom(r))) => IsNaN(C(r, "OPS"))

\* OPS was computed; one row has AB = 0 with a defined on-base rate (a walk),
\* another a defined slugging with AB + BB = 0
C5_Witness ==
  /\ Done
  /\ ~Supplied("OPS")
  /\ \E r \in OutRows : IsZero(C(r, "AB")) /\ C(r, "BB") = Num(1) /\ IsNaN(C(r, "OPS"))
  /\ \E r \in OutRows : C(r, "AB") = Num(2) /\ C(r, "BB") = Num(-2) /\ IsNaN(C(r, "OPS"))

\* C10 as claimed: a supplied OPS or wOBA column is left as ingested, rows
\* of files without the column keeping the missing marker.  The coercion of
\* line 82 turns missing and text cells of any such column into 0.
C10_SuppliedColumnUntouched ==
  Done => \A col \in {"OPS", "wOBA"} :
            Supplied(col) => \A r \in OutRows : C(r, col) = C(Ingested(r), col)

\* C10, amended: a supplied OPS or wOBA column is not computed: every cell
\* holds the number ingested, and 0 where the ingested cell was missing
\* (rows of files without the column) or was not a number.
C10_SuppliedColumnCoerced ==
  Done => \A col \in {"OPS", "wOBA"} :
            Supplied(col) =>
              \A r \in OutRows :
                C(r, col) = (IF IsNum(C(Ingested(r), col)) THEN C(Ingested(r), col) ELSE Zero)

\* one file supplies OPS; a row of a file without the column, for which the
\* formula of lines 113-123 gives 1/3, holds 0
C10_Witness ==
  /\ Done
  /\ Supplied("OPS")
  /\ \E r \in OutRows :
       /\ "OPS" \notin dir[r.src[1]].cols
       /\ IsNaN(C(Ingested(r), "OPS"))
       /\ OPSOf(r) = Norm(1, 3)
       /\ C(r, "OPS") = Zero
  /\ \E r \in OutRows : C(r, "OPS") = Norm(3, 4)

\* the qualified rows of a table: PA >= 20 and a defined FWOBA_raw
Qualified(t) == SelectSeq(t.rows, LAMBDA r : QGe(C(r, "PA"), Num(20)) /\ ~IsNaN(C(r, "FWOBA_raw")))

\* no qualified row, a single one, or one FWOBA_raw for all of them
Degenerate(q) ==
  \/ Len(q) <= 1
  \/ \A i, j \in DOMAIN q : C(q[i], "FWOBA_raw") = C(q[j], "FWOBA_raw")

\* 04_2021.csv and 05_2021.csv, one row each for one player: PA = 30 in
\* April; PA = 0 and no other count in May
AprilMay ==
  /\ DOMAIN dir = {1, 5}
  /\ dir[1].ok /\ dir[5].ok
  /\ Len(dir[1].rows) = 1 /\ Len(dir[5].rows) = 1
  /\ dir[1].rows[1]["Name"] = dir[5].rows[1]["Name"]
  /\ dir[1].rows[1]["PA"] = Num(30)
  /\ \A col \in dir[5].cols \ {"Name"} : dir[5].rows[1][col] = Zero

RowOf(id) == CHOOSE r \in OutRows : r.src[1] = id

\* C6 as claimed: in the April/May scenario the output has two rows and every
\* rate metric of the May row, the rescaled FWOBA included, is undefined; and
\* any row with PA = 0 has an undefined FWOBA_raw and an undefined FWOBA.
\* With one qualified row the fallback of line 197 sets FWOBA to 0.320.
C6_ZeroPAAllUndefined ==
  Done =>
    /\ AprilMay =>
         /\ Len(Out.rows) = 2
         /\ \A col \in {"OPS", "wOBA", "FWOBA_raw", "FWOBA"} : IsNaN(C(RowOf(5), col))
         /\ IsNum(C(RowOf(1), "FWOBA_raw"))
    /\ \A r \in OutRows :
         IsZero(C(r, "PA")) => IsNaN(C(r, "FWOBA_raw")) /\ IsNaN(C(r, "FWOBA"))

\* C6, amended: in the April/May scenario the output has two rows; OPS, wOBA
\* and FWOBA_raw of the May row are undefined and FWOBA_raw of the April row
\* is computed, while FWOBA is 0.320 in both rows, the single qualified row
\* giving no standard deviation.  Any row with PA = 0 has an undefined
\* FWOBA_raw; its FWOBA is undefined when the qualified rows are not
\* degenerate and 0.320 when they are.
C6_ZeroPARawUndefined ==
  Done =>
    /\ AprilMay =>
         /\ Len(Out.rows) = 2
         /\ \A col \in {"OPS", "wOBA", "FWOBA_raw"} : IsNaN(C(RowOf(5), col))
         /\ C(RowOf(5), "FWOBA") = TargetMean
         /\ IsNum(C(RowOf(1), "FWOBA_raw"))
         /\ C(RowOf(1), "FWOBA") = TargetMean
    /\ \A r \in OutRows :
         IsZero(C(r, "PA")) =>
           /\ IsNaN(C(r, "FWOBA_raw"))
           /\ C(r, "FWOBA") = (IF Degenerate(Qualified(Out)) THEN TargetMean ELSE NaN)

\* the scenario itself, with April's H = 6: FWOBA_raw is 3.3 / 30
C6_Witness ==
  /\ Done
  /\ AprilMay
  /\ C(RowOf(1), "FWOBA_raw") = Norm(11, 100)
  /\ IsNaN(C(RowOf(5), "FWOBA_raw"))

\* a row with PA = 0 beside qualified rows that differ
C6_GeneralWitness ==
  /\ Done
  /\ ~Degenerate(Qualified(Out))
  /\ \E r \in OutRows : IsZero(C(r, "PA")) /\ IsNaN(C(r, "FWOBA"))

C7_SingleWitness ==
  /\ Done
  /\ Len(Qualified(Out)) = 1
  /\ Len(Out.rows) = 3

\* the ingested corpus with its metrics, rows of every season kept
WholeCorpus == Metrics(EnsureNeeded(CoerceAll(RenameCols(concat_df))))

\* the value 0.320 + 0.045 * z of a cell as sign(z) * z^2
SignedSquare(a) == IF a.k = "z" THEN a ELSE Zero

FwobaLess(a, b) == SignedSquare(a).n * SignedSquare(b).d < SignedSquare(b).n * SignedSquare(a).d

RawLess(a, b) == IsNum(a) /\ IsNum(b) /\ a.n * b.d < b.n * a.d

\* FWOBA of every row of Out is the z-score mapping with the mean and the
\* variance of the rows q
RescaledOver(q) ==
  \A r \in OutRows : C(r, "FWOBA") = ZScoreCell(C(r, "FWOBA_raw"), MeanRaw(q), VarRaw(q))

====
